---- MODULE Spec2Model ----
(***************************************************************************)
(* A model of wiktextract/wiktionary.py: the XML parser target             *)
(* WiktionaryTarget (start / data / end) that assembles pages from a flat  *)
(* event stream, and parse_text, which classifies the lines of a page body *)
(* into the seven relation lists and writes one JSON line per page.        *)
(*                                                                         *)
(* Python strings are TLA+ strings handled character by character with     *)
(* Len, SubSeq and \o.  Python's None is the empty tuple <<>> and a value  *)
(* v that may be None is the one-element tuple <<v>>.                      *)
(***************************************************************************)
EXTENDS Integers, Sequences, FiniteSets, TLC

VARIABLES
    self,               \* the WiktionaryTarget object (its attributes)
    capture_redirects,  \* self.capture_redirects, fixed at construction
    word_cb,            \* the arguments word_cb has been called with, in order
    Output,             \* the lines appended to Output.txt, in order
    printed,            \* the diagnostics printed, in order
    err,                \* "none", or the exception that aborted the parse
    last,               \* the event handled last and the branch it took
    npages,             \* page start tags seen so far (bounds the run)
    nelems,             \* start tags of other elements than wrappers so far
    ref,                \* the reference run: the parser on the same document
                        \* without its unknown elements (SpecRef)
    tpl,                \* a text and what clean_arg2_re finds in it (SpecArgs)
    cls                 \* the loop of parse_text over the lines of one body:
                        \* key, the seven lists and the lines of wordss it
                        \* has read (SpecLines)

vars == <<self, capture_redirects, word_cb, Output, printed, err, last,
          npages, nelems, ref, tpl, cls>>

\* The variables of the functions that are stepped on their own.
pure == <<tpl, cls>>

\* The variables of the parser and of the runs beside it.
parser == <<self, capture_redirects, word_cb, Output, printed, err, last,
            npages, nelems, ref>>

----------------------------------------------------------------------------
(* Bounds of the model.                                                    *)

MaxPages == 2
MaxElems == 3
MaxTokens == 3
MaxLines == 4

----------------------------------------------------------------------------
(* Python values.                                                          *)

None == <<>>
Some(v) == <<v>>
Val(o) == o[1]

\* Truth value of an optional string, as in "if redirect:" -- None and the
\* empty string are both false.
Falsy(o) == o = None \/ Val(o) = ""
Truthy(o) == ~Falsy(o)

----------------------------------------------------------------------------
(* Strings.                                                                *)

Char(s, i) == SubSeq(s, i, i)
From(s, i) == SubSeq(s, i, Len(s))

\* str.find for a one-character needle, from position i; 0 stands for
\* Python's -1 and the positions are counted from 1.
RECURSIVE FindFrom(_, _, _)
FindFrom(s, c, i) ==
    IF i > Len(s) THEN 0
    ELSE IF Char(s, i) = c THEN i
    ELSE FindFrom(s, c, i + 1)

Find(s, c) == FindFrom(s, c, 1)

\* The position of the last occurrence, 0 if there is none.
RECURSIVE RFindFrom(_, _, _)
RFindFrom(s, c, i) ==
    IF i < 1 THEN 0
    ELSE IF Char(s, i) = c THEN i
    ELSE RFindFrom(s, c, i - 1)

RFind(s, c) == RFindFrom(s, c, Len(s))

\* "sub in s"
Contains(s, sub) ==
    \E i \in 1..(Len(s) - Len(sub) + 1) : SubSeq(s, i, i + Len(sub) - 1) = sub

UpperCase == "ABCDEFGHIJKLMNOPQRSTUVWXYZ"
LowerCase == "abcdefghijklmnopqrstuvwxyz"
Digits == "0123456789"

\* The lower-case letter of each upper-case letter.
LowerMap ==
    [c \in {Char(UpperCase, i) : i \in 1..Len(UpperCase)} |->
        Char(LowerCase, Find(UpperCase, c))]

LowerChar(c) == IF c \in DOMAIN LowerMap THEN LowerMap[c] ELSE c

RECURSIVE Lower(_)
Lower(s) == IF s = "" THEN "" ELSE LowerChar(Char(s, 1)) \o Lower(From(s, 2))

Whitespace == {" ", "\n", "\t", "\r"}

RECURSIVE LStrip(_)
LStrip(s) ==
    IF s # "" /\ Char(s, 1) \in Whitespace THEN LStrip(From(s, 2)) ELSE s

RECURSIVE RStrip(_)
RStrip(s) ==
    IF s # "" /\ Char(s, Len(s)) \in Whitespace
    THEN RStrip(SubSeq(s, 1, Len(s) - 1))
    ELSE s

\* str.strip()
Strip(s) == LStrip(RStrip(s))

\* "".join(chunks)
RECURSIVE Join(_)
Join(chunks) ==
    IF chunks = <<>> THEN "" ELSE Head(chunks) \o Join(Tail(chunks))

\* str.splitlines(), for the line break "\n".
RECURSIVE SplitLines(_)
SplitLines(s) ==
    IF s = "" THEN <<>>
    ELSE LET i == Find(s, "\n") IN
         IF i = 0 THEN <<s>>
         ELSE <<SubSeq(s, 1, i - 1)>> \o SplitLines(From(s, i + 1))

\* \w of the re module, for ASCII text.
WordChars ==
    {Char(UpperCase, i) : i \in 1..Len(UpperCase)}
        \cup {Char(LowerCase, i) : i \in 1..Len(LowerCase)}
        \cup {Char(Digits, i) : i \in 1..Len(Digits)}
        \cup {"_"}

IsWordChar(c) == c \in WordChars

\* re.sub(r'[^\w]', ' ', s)
RECURSIVE NonWordToSpace(_)
NonWordToSpace(s) ==
    IF s = "" THEN ""
    ELSE (IF IsWordChar(Char(s, 1)) THEN Char(s, 1) ELSE " ")
             \o NonWordToSpace(From(s, 2))

\* re.sub(r'[^\w]', ' ', aword).strip()
HeaderText(aword) == Strip(NonWordToSpace(aword))

----------------------------------------------------------------------------
(* wikitextparser: parsed.templates[0].arguments[0].value                  *)

Two(s, i) == IF i < Len(s) THEN SubSeq(s, i, i + 1) ELSE ""

\* Scans the inside of a template from position i: the position of the
\* "}}" that closes it (0 if it is never closed) and the positions of the
\* "|" that separate its arguments, skipping nested {{...}} and [[...]].
RECURSIVE ScanTemplate(_, _, _, _, _)
ScanTemplate(s, i, depth, link, seps) ==
    IF i > Len(s) THEN [close |-> 0, seps |-> seps]
    ELSE IF Two(s, i) = "{{" THEN ScanTemplate(s, i + 2, depth + 1, link, seps)
    ELSE IF Two(s, i) = "}}" THEN
        IF depth = 0 THEN [close |-> i, seps |-> seps]
        ELSE ScanTemplate(s, i + 2, depth - 1, link, seps)
    ELSE IF Two(s, i) = "[[" THEN ScanTemplate(s, i + 2, depth, link + 1, seps)
    ELSE IF Two(s, i) = "]]" /\ link > 0
        THEN ScanTemplate(s, i + 2, depth, link - 1, seps)
    ELSE IF Char(s, i) = "|" /\ depth = 0 /\ link = 0
        THEN ScanTemplate(s, i + 1, depth, link, Append(seps, i))
    ELSE ScanTemplate(s, i + 1, depth, link, seps)

\* The positions at which a template of s starts.
TemplateStarts(s) ==
    {i \in 1..Len(s) :
        Two(s, i) = "{{" /\ ScanTemplate(s, i + 2, 0, 0, <<>>).close > 0}

\* Argument.value: the text after the "|", and after the first "=" when
\* the argument is named.
ArgumentValue(arg) ==
    LET eq == Find(arg, "=") IN IF eq > 0 THEN From(arg, eq + 1) ELSE arg

\* parsed.templates[0].arguments[0].value, or None where the source's
\* expression raises (no template on the line, or a template with no
\* argument) and the except clause skips the line.
FirstArgValue(aword) ==
    IF TemplateStarts(aword) = {} THEN None
    ELSE LET first == CHOOSE i \in TemplateStarts(aword) :
                          \A j \in TemplateStarts(aword) : i <= j
             t == ScanTemplate(aword, first + 2, 0, 0, <<>>)
         IN IF t.seps = <<>> THEN None
            ELSE LET stop == IF Len(t.seps) > 1 THEN t.seps[2] ELSE t.close
                 IN Some(ArgumentValue(SubSeq(aword, t.seps[1] + 1, stop - 1)))

----------------------------------------------------------------------------
(* arg_re, args_end_re and clean_arg2_re.  A piece of a regular expression *)
(* is modelled by the sequence of the positions it can end at when it      *)
(* starts at position i, in the order in which the backtracking matcher    *)
(* of the re module tries them; the match is the first one in that order   *)
(* after which the rest of the expression matches.                         *)

\* The character at position i, "" past the end.
At(s, i) == IF i >= 1 /\ i <= Len(s) THEN Char(s, i) ELSE ""

\* The first position from i on whose character is in stop, Len(s) + 1 if
\* there is none: where a greedy [^...]* ends.
RECURSIVE RunToAny(_, _, _)
RunToAny(s, i, stop) ==
    IF i > Len(s) \/ Char(s, i) \in stop THEN i ELSE RunToAny(s, i + 1, stop)

\* The first position from i on whose character is not in set.
RECURSIVE RunOver(_, _, _)
RunOver(s, i, set) ==
    IF i > Len(s) \/ Char(s, i) \notin set THEN i ELSE RunOver(s, i + 1, set)

\* hi, hi - 1, ..., lo
Descending(hi, lo) == [n \in 1..(hi - lo + 1) |-> hi - n + 1]

RECURSIVE ConcatAll(_)
ConcatAll(seqs) ==
    IF seqs = <<>> THEN <<>> ELSE Head(seqs) \o ConcatAll(Tail(seqs))

\* [-_a-zA-Z0-9]
NameChars == WordChars \cup {"-"}

\* \|[-_a-zA-Z0-9]+=[^}|]+
NamedArg(s, i) ==
    IF At(s, i) # "|" THEN <<>>
    ELSE LET j == RunOver(s, i + 1, NameChars)
             k == RunToAny(s, j + 1, {"}", "|"})
         IN IF j > i + 1 /\ At(s, j) = "=" /\ k > j + 1
            THEN Descending(k, j + 2)
            ELSE <<>>

\* (\|[-_a-zA-Z0-9]+=[^}|]+)*
RECURSIVE NamedArgs(_, _)
NamedArgs(s, i) ==
    ConcatAll([n \in DOMAIN NamedArg(s, i) |->
                   NamedArgs(s, NamedArg(s, i)[n])]) \o <<i>>

\* [^|{}]|\{\{[^}]*\}\}|\[\[[^]]+\]\]|\[[^]]+\]
ArgItem(s, i) ==
    LET plain == IF At(s, i) \notin {"", "|", "{", "}"} THEN <<i + 1>> ELSE <<>>
        t == RunToAny(s, i + 2, {"}"})
        template == IF Two(s, i) = "{{" /\ Two(s, t) = "}}"
                    THEN <<t + 2>> ELSE <<>>
        l == RunToAny(s, i + 2, {"]"})
        link == IF Two(s, i) = "[[" /\ l > i + 2 /\ Two(s, l) = "]]"
                THEN <<l + 2>> ELSE <<>>
        b == RunToAny(s, i + 1, {"]"})
        bracket == IF At(s, i) = "[" /\ b > i + 1 /\ At(s, b) = "]"
                   THEN <<b + 1>> ELSE <<>>
    IN plain \o template \o link \o bracket

\* ([^|{}]|\{\{[^}]*\}\}|\[\[[^]]+\]\]|\[[^]]+\])*
RECURSIVE ArgItems(_, _)
ArgItems(s, i) ==
    ConcatAll([n \in DOMAIN ArgItem(s, i) |->
                   ArgItems(s, ArgItem(s, i)[n])]) \o <<i>>

\* The arguments that end at the positions es and start after the "|" at q.
ArgsBetween(s, q, es) ==
    [m \in DOMAIN es |-> [pos |-> es[m], arg |-> SubSeq(s, q + 1, es[m] - 1)]]

\* \|(...)* from position q.
ArgFrom(s, q) ==
    IF At(s, q) # "|" THEN <<>>
    ELSE CHOOSE r \in {ArgsBetween(s, q, es) : es \in {ArgItems(s, q + 1)}} :
             TRUE

\* arg_re from position i: where it ends and the text of its second group,
\* the argument.
arg_re(s, i) ==
    CHOOSE r \in {ConcatAll([n \in DOMAIN qs |-> ArgFrom(s, qs[n])]) :
                     qs \in {NamedArgs(s, i)}} : TRUE

\* args_end_re, (arg_re)*\}\}, can match from position i.
RECURSIVE CanEnd(_, _)
CanEnd(s, i) ==
    \/ Two(s, i) = "}}"
    \/ \E xs \in {arg_re(s, i)} : \E n \in DOMAIN xs : CanEnd(s, xs[n].pos)

\* Where args_end_re ends when it matches from position i: the repetition
\* takes another argument whenever the rest can still match.
RECURSIVE args_end_re(_, _)
args_end_re(s, i) ==
    LET Ends(x) == CanEnd(s, x.pos) IN
    CHOOSE e \in {IF ok = <<>> THEN i + 2 ELSE args_end_re(s, Head(ok).pos) :
                     ok \in {SelectSeq(arg_re(s, i), Ends)}} : TRUE

clean_arg2_tags == <<"zh-l", "ja-l", "l", "defn", "w", "m", "mention">>

\* The tags of clean_arg2_tags that stand at position i, after "{{".
TagAt(s, i) ==
    IF Two(s, i) # "{{" THEN <<>>
    ELSE LET Here(t) == /\ i + 1 + Len(t) <= Len(s)
                        /\ SubSeq(s, i + 2, i + 1 + Len(t)) = t
         IN SelectSeq(clean_arg2_tags, Here)

\* One more arg_re and args_end_re can match from position p.
LastArgMatches(s, p) ==
    \E xs \in {arg_re(s, p)} : \E n \in DOMAIN xs : CanEnd(s, xs[n].pos)

\* Two arg_re and args_end_re can match from position p.
ArgsMatch(s, p) ==
    \E xs \in {arg_re(s, p)} :
        \E n \in DOMAIN xs : LastArgMatches(s, xs[n].pos)

\* The match at i with the tag and the first argument chosen: the second
\* argument is the first that lets the rest match.
MatchSecond(s, i, tag, first) ==
    LET Ends(x) == CanEnd(s, x.pos) IN
    CHOOSE r \in {[text |-> SubSeq(s, i, args_end_re(s, Head(ss).pos) - 1),
                    tag |-> tag, arg1 |-> first.arg, arg2 |-> Head(ss).arg] :
                      ss \in {SelectSeq(arg_re(s, first.pos), Ends)}} : TRUE

\* The match at i with the tag chosen.
MatchFirst(s, i, tag) ==
    LET Rest(x) == LastArgMatches(s, x.pos) IN
    CHOOSE r \in {MatchSecond(s, i, tag, Head(fs)) :
                     fs \in {SelectSeq(arg_re(s, i + 2 + Len(tag)), Rest)}} :
        TRUE

\* clean_arg2_re.match at position i: the first match in the order of the
\* backtracking, None if there is none.
MatchAt(s, i) ==
    LET Rest(t) == ArgsMatch(s, i + 2 + Len(t)) IN
    CHOOSE r \in {IF ts = <<>> THEN None
                   ELSE Some(MatchFirst(s, i, Head(ts))) :
                     ts \in {SelectSeq(TagAt(s, i), Rest)}} : TRUE

\* clean_arg2_re.search(s): the match at the leftmost position that has
\* one, None if there is none.
RECURSIVE SearchFrom(_, _)
SearchFrom(s, i) ==
    IF i > Len(s) THEN None
    ELSE CHOOSE r \in {IF m # None THEN m ELSE SearchFrom(s, i + 1) :
                          m \in {MatchAt(s, i)}} : TRUE

clean_arg2_re(s) == SearchFrom(s, 1)

----------------------------------------------------------------------------
(* parse_text                                                              *)

Labels == <<"Synonyms", "Antonyms", "Hyponyms", "Hypernyms", "Instances",
            "Meronyms", "Holonyms">>
Keys == <<"a", "b", "c", "d", "e", "f", "g">>
LabelSet == {Labels[i] : i \in DOMAIN Labels}
KeySet == {Keys[i] : i \in DOMAIN Keys}
NoKey == "None"
DontCare == "Dont care now"

KeyOf(label) == Keys[CHOOSE i \in DOMAIN Labels : Labels[i] = label]
LabelOf(key) == Labels[CHOOSE i \in DOMAIN Keys : Keys[i] = key]

ListMarkers == {"{{ws beginlist}}", "{{ws endlist}}"}
Sentinels == {"=====Various=====", "===See also===", "===Further reading==="}

\* wordss: the non-empty lines of the text, each stripped.
RECURSIVE StripAll(_)
StripAll(lines) ==
    IF lines = <<>> THEN <<>>
    ELSE IF Head(lines) = "" THEN StripAll(Tail(lines))
    ELSE <<Strip(Head(lines))>> \o StripAll(Tail(lines))

Wordss(text) == StripAll(SplitLines(text))

\* The lists before the first line: syno, anto, hypo, hyper, inst, mero,
\* holy, named here by the key of data they are stored under.
EmptyLists == [l \in LabelSet |-> <<>>]

\* NextKey that keeps a key once it is one of the seven.
NextKey_KeepsKey(key, aword) ==
    IF key \in KeySet THEN key
    ELSE IF HeaderText(aword) \in LabelSet THEN KeyOf(HeaderText(aword))
    ELSE IF aword \in Sentinels THEN DontCare
    ELSE key

\* NextKey in which the three other headers do not change the key.
NextKey_NoSentinel(key, aword) ==
    IF HeaderText(aword) \in LabelSet THEN KeyOf(HeaderText(aword)) ELSE key

\* NextKey in which every other line that begins with "=" ends the
\* collection as the three sentinels do.
NextKey_AnySectionEnds(key, aword) ==
    IF HeaderText(aword) \in LabelSet THEN KeyOf(HeaderText(aword))
    ELSE IF aword \in Sentinels \/ Char(aword, 1) = "=" THEN DontCare
    ELSE key

\* The key chosen by the if/elif chain for one line.
NextKey(key, aword) ==
    IF HeaderText(aword) \in LabelSet THEN KeyOf(HeaderText(aword))
    ELSE IF aword \in Sentinels THEN DontCare
    ELSE key

\* ClassifyLine in which a header empties the list of its label.
ClassifyLine_Overwrite(st, aword) ==
    IF aword \in ListMarkers THEN st
    ELSE LET key == NextKey(st.key, aword) IN
         IF key \in KeySet /\ LabelOf(key) # HeaderText(aword)
                           /\ FirstArgValue(aword) # None
         THEN [key |-> key,
               lists |-> [st.lists EXCEPT ![LabelOf(key)] =
                              Append(@, Val(FirstArgValue(aword)))]]
         ELSE IF key \in KeySet /\ LabelOf(key) = HeaderText(aword)
         THEN [key |-> key, lists |-> [st.lists EXCEPT ![LabelOf(key)] = <<>>]]
         ELSE [key |-> key, lists |-> st.lists]

\* ClassifyLine in which a line without a value appends the empty string.
ClassifyLine_AppendsEmpty(st, aword) ==
    IF aword \in ListMarkers THEN st
    ELSE LET key == NextKey(st.key, aword) IN
         IF key \in KeySet /\ LabelOf(key) # HeaderText(aword)
         THEN [key |-> key,
               lists |-> [st.lists EXCEPT ![LabelOf(key)] =
                              Append(@, IF FirstArgValue(aword) = None THEN ""
                                        ELSE Val(FirstArgValue(aword)))]]
         ELSE [key |-> key, lists |-> st.lists]

\* One iteration of "for aword in wordss": st is [key, lists].
ClassifyLine(st, aword) ==
    IF aword \in ListMarkers THEN st
    ELSE LET key == NextKey(st.key, aword) IN
         IF key \in KeySet /\ LabelOf(key) # HeaderText(aword)
                           /\ FirstArgValue(aword) # None
         THEN [key |-> key,
               lists |-> [st.lists EXCEPT ![LabelOf(key)] =
                              Append(@, Val(FirstArgValue(aword)))]]
         ELSE [key |-> key, lists |-> st.lists]

RECURSIVE Classify(_, _)
Classify(st, wordss) ==
    IF wordss = <<>> THEN st
    ELSE Classify(ClassifyLine(st, Head(wordss)), Tail(wordss))

\* The dictionary data that is written to Output.txt.
Entry(word, lists) ==
    [word |-> word,
     Synonyms |-> lists["Synonyms"], Antonyms |-> lists["Antonyms"],
     Hyponyms |-> lists["Hyponyms"], Hypernyms |-> lists["Hypernyms"],
     Instances |-> lists["Instances"], Meronyms |-> lists["Meronyms"],
     Holonyms |-> lists["Holonyms"]]

\* "Thesaurus:" not in word
NotThesaurus(word) == ~Contains(word, "Thesaurus:")

\* parse_text(word, text, ctx): the exception it raises ("none" if it
\* returns) and the dictionary it writes (None if it writes nothing).
parse_text(word, text) ==
    IF word = None \/ text = None
    THEN [exc |-> "AssertionError", data |-> None]
    ELSE IF NotThesaurus(Val(word)) THEN [exc |-> "none", data |-> None]
    ELSE IF Wordss(Val(text)) = <<>> THEN [exc |-> "IndexError", data |-> None]
    ELSE [exc |-> "none",
          data |-> Some(Entry(Wordss(Val(text))[1],
                              Classify([key |-> NoKey, lists |-> EmptyLists],
                                       Wordss(Val(text))).lists))]

----------------------------------------------------------------------------
(* WiktionaryTarget                                                        *)

ignore_tags == {"sha1", "comment", "username", "timestamp", "sitename",
                "dbname", "base", "generator", "case", "ns", "restrictions",
                "contributor", "minor", "parentid", "namespaces", "revision",
                "siteinfo", "mediawiki"}

stack_ignore == <<"contributor">>

RecognizedModels == {"wikitext", "Scribunto", "css", "javascript",
                     "sanitized-css"}
RecognizedFormats == {"text/x-wiki", "text/plain", "text/css",
                      "text/javascript"}
NonTextModels == {"css", "sanitized-css", "javascript", "Scribunto"}

\* self.stack[-1]
Top(stack) == stack[Len(stack)]

\* "t in self.stack"
InStack(t, stack) == \E i \in DOMAIN stack : stack[i] = t

\* The tag with everything up to the first "}" removed, in lower case.
TagName(tag) ==
    LET idx == Find(tag, "}") IN
    Lower(IF idx > 0 THEN From(tag, idx + 1) ELSE tag)

\* re.sub(r".*}", "", k)
AttrName(k) == From(k, RFind(k, "}") + 1)

\* {re.sub(r".*}", "", k): v for k, v in attrs.items()}; attrs is the
\* sequence of the (name, value) pairs in the order of the dictionary.
Attrs(attrs) ==
    [n \in {AttrName(attrs[i][1]) : i \in DOMAIN attrs} |->
        attrs[CHOOSE i \in DOMAIN attrs :
                  /\ AttrName(attrs[i][1]) = n
                  /\ \A j \in DOMAIN attrs :
                         AttrName(attrs[j][1]) = n => j <= i][2]]

\* attrs.get(k)
Get(attrs, k) == IF k \in DOMAIN attrs THEN Some(attrs[k]) ELSE None

\* __init__
NewTarget ==
    [tag |-> None, namespaces |-> <<>>, stack |-> <<>>, text |-> None,
     title |-> None, pageid |-> None, redirect |-> None, model |-> None,
     format |-> None, attrs |-> <<>>, data |-> <<>>]

\* ClearPage that leaves the redirect target and the text of the page
\* before.
ClearPage_KeepRedirect(s) ==
    [s EXCEPT !.title = None, !.pageid = None, !.model = None,
              !.format = None]

\* The assignments of start for a page tag.
ClearPage(s) ==
    [s EXCEPT !.text = None, !.title = None, !.pageid = None,
              !.redirect = None, !.model = None, !.format = None]

\* start(self, tag, attrs): the object after the call.
start(s, tag, attrs) ==
    LET t == TagName(tag)
        s1 == [s EXCEPT !.tag = Some(t), !.stack = Append(@, t),
                        !.attrs = Attrs(attrs), !.data = <<>>]
    IN IF t = "page" THEN ClearPage(s1) ELSE s1

\* What a call of end leaves behind: the object, the calls of word_cb, the
\* lines of Output.txt, the diagnostics, the exception and the branch taken.
Outcome(s, cb, out, pr, exc, branch) ==
    [self |-> s, word_cb |-> cb, Output |-> out, printed |-> pr,
     exc |-> exc, branch |-> branch]

\* The model is one of the models that are not wikitext.
IsNonTextModel(m) == m # None /\ Val(m) \in NonTextModels

\* The call parse_text(title, self.text, self) of the page branch, given
\* what parse_text does (r).
ParsePage(s, cb, out, pr, r) ==
    Outcome(s, cb, IF r.data = None THEN out ELSE Append(out, Val(r.data)),
            pr, r.exc,
            IF r.exc # "none" THEN "raise"
            ELSE IF r.data = None THEN "skip" ELSE "parse")

\* EndPage with "if redirect and self.capture_redirects:", so that a redirect
\* page falls to parse_text when redirects are not captured.
EndPage_RedirectAndCapture(s, capture, cb, out, pr) ==
    IF IsNonTextModel(s.model) THEN Outcome(s, cb, out, pr, "none", "drop")
    ELSE IF Truthy(s.redirect) /\ capture
        THEN Outcome(s, Append(cb, [redirect |-> Val(s.redirect),
                                    word |-> s.title]),
                     out, pr, "none", "redirect")
    ELSE CHOOSE o \in {ParsePage(s, cb, out, pr, r) :
                          r \in {parse_text(s.title, s.text)}} : TRUE

\* EndPage with the redirect test before the test of the model.
EndPage_RedirectFirst(s, capture, cb, out, pr) ==
    IF Truthy(s.redirect) THEN
        IF capture
        THEN Outcome(s, Append(cb, [redirect |-> Val(s.redirect),
                                    word |-> s.title]),
                     out, pr, "none", "redirect")
        ELSE Outcome(s, cb, out, pr, "none", "redirect")
    ELSE IF IsNonTextModel(s.model) THEN Outcome(s, cb, out, pr, "none", "drop")
    ELSE CHOOSE o \in {ParsePage(s, cb, out, pr, r) :
                          r \in {parse_text(s.title, s.text)}} : TRUE

\* EndPage with "if" in place of "else": a captured redirect page is parsed
\* as well.
EndPage_FallThrough(s, capture, cb, out, pr) ==
    IF IsNonTextModel(s.model) THEN Outcome(s, cb, out, pr, "none", "drop")
    ELSE CHOOSE o \in {ParsePage(s,
                                 IF Truthy(s.redirect) /\ capture
                                 THEN Append(cb, [redirect |-> Val(s.redirect),
                                                  word |-> s.title])
                                 ELSE cb,
                                 out, pr, r) :
                          r \in {parse_text(s.title, s.text)}} : TRUE

\* The page branch of end.  (parse_text is evaluated once, as the one
\* element of a set.)
EndPage(s, capture, cb, out, pr) ==
    IF IsNonTextModel(s.model) THEN Outcome(s, cb, out, pr, "none", "drop")
    ELSE IF Truthy(s.redirect) THEN
        IF capture
        THEN Outcome(s, Append(cb, [redirect |-> Val(s.redirect),
                                    word |-> s.title]),
                     out, pr, "none", "redirect")
        ELSE Outcome(s, cb, out, pr, "none", "redirect")
    ELSE CHOOSE o \in {ParsePage(s, cb, out, pr, r) :
                          r \in {parse_text(s.title, s.text)}} : TRUE

\* EndId without the test for revision.
EndId_AnyId(s, data, cb, out, pr) ==
    Outcome([s EXCEPT !.pageid = Some(data)], cb, out, pr, "none", "id")

\* The id branch of end.
EndId(s, data, cb, out, pr) ==
    IF InStack("revision", s.stack)
    THEN Outcome(s, cb, out, pr, "none", "revid")
    ELSE Outcome([s EXCEPT !.pageid = Some(data)], cb, out, pr, "none", "id")

\* The title branch of end.
EndTitle(s, data, cb, out, pr) ==
    Outcome([s EXCEPT !.title = Some(data)], cb, out, pr, "none", "title")

\* EndText that adds the text to the text it already has.
EndText_Append(s, data, cb, out, pr) ==
    Outcome([s EXCEPT !.text = IF @ = None THEN Some(data)
                                ELSE Some(Val(@) \o data)],
            cb, out, pr, "none", "text")

\* The text branch of end.
EndText(s, data, cb, out, pr) ==
    Outcome([s EXCEPT !.text = Some(data)], cb, out, pr, "none", "text")

\* The redirect branch of end.
EndRedirect(s, attrs, cb, out, pr) ==
    Outcome([s EXCEPT !.redirect = Get(attrs, "title")],
            cb, out, pr, "none", "redirect_tag")

\* The namespace branch of end.
EndNamespace(s, attrs, data, cb, out, pr) ==
    Outcome([s EXCEPT !.namespaces =
                [k \in DOMAIN @ \cup {Get(attrs, "key")} |->
                    IF k = Get(attrs, "key") THEN data ELSE @[k]]],
            cb, out, pr, "none", "namespace")

\* EndModel that keeps the model the page already has.
EndModel_KeepFirst(s, data, cb, out, pr) ==
    Outcome([s EXCEPT !.model = IF @ = None THEN Some(data) ELSE @], cb, out,
            IF data \in RecognizedModels THEN pr
            ELSE Append(pr, <<"UNRECOGNIZED MODEL", data>>),
            "none", "model")

\* EndModel that assigns the field only when the value is recognized.
EndModel_Unset(s, data, cb, out, pr) ==
    IF data \in RecognizedModels
    THEN Outcome([s EXCEPT !.model = Some(data)], cb, out, pr, "none", "model")
    ELSE Outcome(s, cb, out, Append(pr, <<"UNRECOGNIZED MODEL", data>>),
                 "none", "model")

\* The model branch of end.
EndModel(s, data, cb, out, pr) ==
    Outcome([s EXCEPT !.model = Some(data)], cb, out,
            IF data \in RecognizedModels THEN pr
            ELSE Append(pr, <<"UNRECOGNIZED MODEL", data>>),
            "none", "model")

\* The format branch of end.
EndFormat(s, data, cb, out, pr) ==
    Outcome([s EXCEPT !.format = Some(data)], cb, out,
            IF data \in RecognizedFormats THEN pr
            ELSE Append(pr, <<"UNRECOGNIZED FORMAT", data>>),
            "none", "format")

\* EndOther that raises instead of printing.
EndOther_Raise(s, tag, cb, out, pr) ==
    Outcome(s, cb, out, pr, "ValueError", "unsupported")

\* The last branch of end: any other tag.
EndOther(s, tag, cb, out, pr) ==
    Outcome(s, cb, out, Append(pr, <<"UNSUPPORTED", tag>>), "none",
            "unsupported")

\* Dispatch without the test for stack_ignore.
Dispatch_NoStackIgnore(s, tag, attrs, data, capture, cb, out, pr) ==
    IF tag \in ignore_tags THEN Outcome(s, cb, out, pr, "none", "ignored")
    ELSE IF tag = "id" THEN EndId(s, data, cb, out, pr)
    ELSE IF tag = "title" THEN EndTitle(s, data, cb, out, pr)
    ELSE IF tag = "text" THEN EndText(s, data, cb, out, pr)
    ELSE IF tag = "redirect" THEN EndRedirect(s, attrs, cb, out, pr)
    ELSE IF tag = "namespace" THEN EndNamespace(s, attrs, data, cb, out, pr)
    ELSE IF tag = "model" THEN EndModel(s, data, cb, out, pr)
    ELSE IF tag = "format" THEN EndFormat(s, data, cb, out, pr)
    ELSE IF tag = "page" THEN EndPage(s, capture, cb, out, pr)
    ELSE EndOther(s, tag, cb, out, pr)

\* The branches of end after the stack is popped and the data is joined:
\* s has the popped stack and the emptied data already.
Dispatch(s, tag, attrs, data, capture, cb, out, pr) ==
    IF tag \in ignore_tags THEN Outcome(s, cb, out, pr, "none", "ignored")
    ELSE IF \E i \in DOMAIN stack_ignore : InStack(stack_ignore[i], s.stack)
        THEN Outcome(s, cb, out, pr, "none", "stack_ignore")
    ELSE IF tag = "id" THEN EndId(s, data, cb, out, pr)
    ELSE IF tag = "title" THEN EndTitle(s, data, cb, out, pr)
    ELSE IF tag = "text" THEN EndText(s, data, cb, out, pr)
    ELSE IF tag = "redirect" THEN EndRedirect(s, attrs, cb, out, pr)
    ELSE IF tag = "namespace" THEN EndNamespace(s, attrs, data, cb, out, pr)
    ELSE IF tag = "model" THEN EndModel(s, data, cb, out, pr)
    ELSE IF tag = "format" THEN EndFormat(s, data, cb, out, pr)
    ELSE IF tag = "page" THEN EndPage(s, capture, cb, out, pr)
    ELSE EndOther(s, tag, cb, out, pr)

\* end with the assertion after the branches instead of before them.
end_AssertAfterDispatch(s, tag, capture, cb, out, pr) ==
    IF s.stack = <<>> THEN Outcome(s, cb, out, pr, "IndexError", "pop")
    ELSE LET ptag == s.stack[Len(s.stack)]
             popped == [s EXCEPT !.stack = SubSeq(@, 1, Len(@) - 1)]
             o == Dispatch([popped EXCEPT !.data = <<>>], TagName(tag),
                           s.attrs, Strip(Join(s.data)), capture, cb, out, pr)
         IN IF TagName(tag) # ptag /\ o.exc = "none"
            THEN [o EXCEPT !.exc = "AssertionError", !.branch = "mismatch"]
            ELSE o

\* end(self, tag)
end(s, tag, capture, cb, out, pr) ==
    IF s.stack = <<>> THEN Outcome(s, cb, out, pr, "IndexError", "pop")
    ELSE LET ptag == s.stack[Len(s.stack)]
             popped == [s EXCEPT !.stack = SubSeq(@, 1, Len(@) - 1)]
         IN IF TagName(tag) # ptag
            THEN Outcome(popped, cb, out, pr, "AssertionError", "mismatch")
            ELSE Dispatch([popped EXCEPT !.data = <<>>], TagName(tag),
                          s.attrs, Strip(Join(s.data)), capture, cb, out, pr)

\* data(self, data): before the first start tag self.data is still the
\* method itself, which has no append.
data(s, chunk) == [s EXCEPT !.data = Append(@, chunk)]

----------------------------------------------------------------------------
(* The event source: the documents the parser is driven with.              *)

Tags == {"page", "title", "id", "text", "redirect", "namespace", "model",
         "format", "revision", "contributor", "foo"}

\* Tags as the XML parser reports them: plain, or in upper case behind a
\* namespace prefix.
RawTags == Tags \cup {"{ns}PAGE"}

\* Tags a caller may close out of turn.
MismatchEnds == {"page"}

\* The elements that only wrap other elements.
Wrappers == {"page", "revision", "contributor"}

\* The elements a document may open inside an element (inside nothing, for
\* the empty stack).
Children(stack) ==
    IF stack = <<>> THEN {"page", "namespace"}
    ELSE CASE stack[Len(stack)] = "page" ->
                  {"title", "id", "redirect", "revision", "contributor", "foo"}
           [] stack[Len(stack)] = "revision" ->
                  {"id", "model", "format", "text"}
           [] stack[Len(stack)] = "contributor" -> {"id", "foo"}
           [] stack[Len(stack)] \in {"title", "redirect", "namespace"} -> {"foo"}
           [] OTHER -> {}

BodySyn == "===Synonyms===\n{{l|en|glad}}\n"
BodyAnt == "===Antonyms===\n{{l|en|sad}}"
BodyPlain == "{{ws beginlist}}\n* plain\n"

\* The character data of an element, as the chunks it arrives in.
Contents(tag) ==
    CASE tag = "title" -> {<<"Thesaurus:", "happy">>, <<"happy">>}
      [] tag = "id" -> {<<" 1\n">>, <<"2">>}
      [] tag = "text" -> {<<BodySyn, BodyAnt>>, <<BodyPlain>>}
      [] tag = "model" -> {<<"wikitext">>, <<"css">>, <<"bogus">>}
      [] tag = "format" -> {<<"text/x-wiki">>, <<"bogus">>}
      [] tag = "namespace" -> {<<"Thesaurus">>}
      [] OTHER -> {}

\* The attributes of a start tag, as (name, value) pairs.
AttrChoices(tag) ==
    CASE tag = "redirect" ->
             {<<>>, <<<<"title", "Target">>>>, <<<<"title", "">>>>,
              <<<<"{ns}title", "Target">>>>, <<<<"Title", "Target">>>>}
      [] tag = "namespace" -> {<<<<"key", "0">>>>}
      [] OTHER -> {<<>>}

\* TagName over the tags of the event source.
TagNameOf == [raw \in RawTags |-> TagName(raw)]

IsPrefix(p, q) == Len(p) <= Len(q) /\ SubSeq(q, 1, Len(p)) = p

\* The chunks that may follow the chunks received since the last tag.
NextChunks(s) ==
    IF s.stack = <<>> THEN {}
    ELSE {c[Len(s.data) + 1] :
            c \in {c \in Contents(s.stack[Len(s.stack)]) :
                      Len(c) > Len(s.data) /\ IsPrefix(s.data, c)}}

\* Every chunk of every element.
AllChunks ==
    UNION {{c[i] : i \in DOMAIN c} : c \in UNION {Contents(t) : t \in Tags}}

----------------------------------------------------------------------------
(* The reference run: a second parser that is driven with the same         *)
(* document from which the unknown elements are left out.                  *)

\* The tags end has a branch for.
RecognizedTags == {"id", "title", "text", "redirect", "namespace", "model",
                   "format", "page"}

\* The elements whose end tag reads the data or the attributes.
LeafTags == RecognizedTags \ {"page"}

\* A tag that is neither recognized nor ignored.
Unknown(tag) == tag \notin RecognizedTags \cup ignore_tags

\* The unknown tags of the documents.
UnknownTags == {t \in Tags : Unknown(t)}

\* The reference before the first event: word_cb and Output are the calls
\* and the lines of the current page only.
NewReference ==
    [self |-> NewTarget, word_cb |-> <<>>, Output |-> <<>>, err |-> "none",
     nested |-> FALSE]

\* The reference after a start tag.  nested records that an unknown element
\* was opened inside an element of LeafTags of the current page; stack is
\* the stack of the parser.
RefStart(r, stack, raw, a) ==
    IF Unknown(TagName(raw))
    THEN [r EXCEPT !.nested = @ \/ \E t \in LeafTags : InStack(t, stack)]
    ELSE IF TagName(raw) = "page"
        THEN [self |-> start(r.self, raw, a), word_cb |-> <<>>,
              Output |-> <<>>, err |-> "none", nested |-> FALSE]
    ELSE [r EXCEPT !.self = start(r.self, raw, a)]

\* The reference after character data; s is the parser.
RefData(r, s, chunk) ==
    IF s.tag = None THEN [r EXCEPT !.err = "AttributeError"]
    ELSE IF Unknown(Top(s.stack)) THEN r
    ELSE [r EXCEPT !.self = data(r.self, chunk)]

\* The reference after an end tag.
RefEnd(r, raw, capture) ==
    IF Unknown(TagName(raw)) THEN r
    ELSE CHOOSE n \in {[self |-> o.self, word_cb |-> o.word_cb,
                         Output |-> o.Output, err |-> o.exc,
                         nested |-> r.nested] :
                           o \in {end(r.self, raw, capture, r.word_cb,
                                      r.Output, <<>>)}} : TRUE

----------------------------------------------------------------------------
(* The fresh run: a second parser that is constructed anew at the start of *)
(* every page and is driven with the events of that page only.             *)

\* A parser that has seen nothing but the open elements of stack.
FreshTarget(stack) == [NewTarget EXCEPT !.stack = stack]

FreshStart(r, stack, raw, a) ==
    IF TagName(raw) = "page"
    THEN [self |-> start(FreshTarget(stack), raw, a), word_cb |-> <<>>,
          Output |-> <<>>, err |-> "none", nested |-> FALSE]
    ELSE [r EXCEPT !.self = start(r.self, raw, a)]

FreshData(r, s, chunk) ==
    IF s.tag = None THEN [r EXCEPT !.err = "AttributeError"]
    ELSE [r EXCEPT !.self = data(r.self, chunk)]

FreshEnd(r, raw, capture) ==
    CHOOSE n \in {[self |-> o.self, word_cb |-> o.word_cb,
                    Output |-> o.Output, err |-> o.exc,
                    nested |-> r.nested] :
                      o \in {end(r.self, raw, capture, r.word_cb,
                                 r.Output, <<>>)}} : TRUE

----------------------------------------------------------------------------
(* The texts clean_arg2_re is applied to and the lines parse_text loops    *)
(* over.                                                                   *)

\* What a text is put together from after "{{m|en".
ArgTokens == {"|", "dog", "x=1", "{{l|en|dog}}", "[[a|b]]", "{{a|{{b}}}}", "}}"}

ArgTexts ==
    {"{{m|en" \o Join(toks) :
        toks \in UNION {[1..n -> ArgTokens] : n \in 0..MaxTokens}}

\* A text before the search.
NewText == [text |-> "{{m|en", searched |-> FALSE, match |-> None]

\* The lines of a body, stripped and not empty as in wordss.
BodyLines ==
    {"===Synonyms===", "====Antonyms====", "Holonyms", "{{ws|glad}}",
     "* {{l|en|sad}} {{qualifier|rare}}", "{{ws|pos=adj|merry}}",
     "{{ws beginlist}}", "* plain", "{{ws}}", "===See also===",
     "===Notes==="}

\* The loop before the first line.
NewLoop == [key |-> NoKey, lists |-> EmptyLists, read |-> <<>>]

----------------------------------------------------------------------------
(* The state machine.                                                      *)

\* The parser after __init__, before the first event.
InitParser ==
    /\ self = NewTarget
    /\ capture_redirects \in BOOLEAN
    /\ word_cb = <<>>
    /\ Output = <<>>
    /\ printed = <<>>
    /\ err = "none"
    /\ last = [op |-> "init", tag |-> "", branch |-> ""]
    /\ npages = 0
    /\ nelems = 0
    /\ ref = NewReference

Init == InitParser /\ tpl = NewText /\ cls = NewLoop

\* The document may open the element raw here.
MayStart(raw) ==
    /\ TagNameOf[raw] \in Children(self.stack)
    /\ TagNameOf[raw] = "page" => npages < MaxPages
    /\ TagNameOf[raw] = "namespace" => npages = 0
    /\ TagNameOf[raw] \notin Wrappers => nelems < MaxElems

\* The end tag raw closes the open element.
Closes(raw) == self.stack # <<>> /\ TagNameOf[raw] = Top(self.stack)

\* The parser calls start(raw, a).
StartEvent(raw, a) ==
    /\ err = "none"
    /\ self' = start(self, raw, a)
    /\ npages' = IF TagNameOf[raw] = "page" THEN npages + 1 ELSE npages
    /\ nelems' = IF TagNameOf[raw] \in Wrappers THEN nelems ELSE nelems + 1
    /\ last' = [op |-> "start", tag |-> TagNameOf[raw], branch |-> ""]
    /\ UNCHANGED <<capture_redirects, word_cb, Output, printed, err, pure>>

\* The parser calls data(chunk).
DataEvent(chunk) ==
    /\ err = "none"
    /\ IF self.tag = None
       THEN /\ err' = "AttributeError"
            /\ last' = [op |-> "data", tag |-> "", branch |-> "raise"]
            /\ UNCHANGED self
       ELSE /\ chunk \in NextChunks(self)
            /\ self' = data(self, chunk)
            /\ last' = [op |-> "data", tag |-> Top(self.stack), branch |-> ""]
            /\ UNCHANGED err
    /\ UNCHANGED <<capture_redirects, word_cb, Output, printed, npages, nelems,
                   pure>>

\* The parser calls end(raw).
EndEvent(raw) ==
    /\ err = "none"
    /\ \E r \in {end(self, raw, capture_redirects, word_cb, Output, printed)} :
          /\ self' = r.self
          /\ word_cb' = r.word_cb
          /\ Output' = r.Output
          /\ printed' = r.printed
          /\ err' = r.exc
          /\ last' = [op |-> "end", tag |-> TagNameOf[raw], branch |-> r.branch]
    /\ UNCHANGED <<capture_redirects, npages, nelems, pure>>

\* A start tag arrives.
Start ==
    /\ \E raw \in RawTags :
         /\ MayStart(raw)
         /\ \E a \in AttrChoices(TagNameOf[raw]) : StartEvent(raw, a)
    /\ UNCHANGED ref

\* Character data arrives.
Data ==
    /\ \E chunk \in AllChunks : DataEvent(chunk)
    /\ UNCHANGED ref

\* An end tag arrives: the one that closes the open element, or one of
\* MismatchEnds out of turn.
End ==
    /\ \E raw \in RawTags :
         /\ Closes(raw) \/ raw \in MismatchEnds
         /\ EndEvent(raw)
    /\ UNCHANGED ref

Next == Start \/ Data \/ End

Spec == Init /\ [][Next]_vars

\* The well-formed documents, with the reference run beside the parser's.
StartRef ==
    \E raw \in RawTags :
        /\ MayStart(raw)
        /\ \E a \in AttrChoices(TagNameOf[raw]) :
             StartEvent(raw, a) /\ ref' = RefStart(ref, self.stack, raw, a)

DataRef ==
    \E chunk \in AllChunks :
        DataEvent(chunk) /\ ref' = RefData(ref, self, chunk)

EndRef ==
    \E raw \in RawTags :
        /\ Closes(raw)
        /\ EndEvent(raw)
        /\ ref' = RefEnd(ref, raw, capture_redirects)

NextRef == StartRef \/ DataRef \/ EndRef

SpecRef == Init /\ [][NextRef]_vars

\* The well-formed documents, with the fresh run beside the parser's.
StartFresh ==
    \E raw \in RawTags :
        /\ MayStart(raw)
        /\ \E a \in AttrChoices(TagNameOf[raw]) :
             StartEvent(raw, a) /\ ref' = FreshStart(ref, self.stack, raw, a)

DataFresh ==
    \E chunk \in AllChunks :
        DataEvent(chunk) /\ ref' = FreshData(ref, self, chunk)

EndFresh ==
    \E raw \in RawTags :
        /\ Closes(raw)
        /\ EndEvent(raw)
        /\ ref' = FreshEnd(ref, raw, capture_redirects)

NextFresh == StartFresh \/ DataFresh \/ EndFresh

SpecFresh == Init /\ [][NextFresh]_vars

\* clean_arg2_re applied to a text.
InitArgs ==
    /\ InitParser
    /\ tpl \in {[NewText EXCEPT !.text = t] : t \in ArgTexts}
    /\ cls = NewLoop

Search ==
    /\ ~tpl.searched
    /\ tpl' = [tpl EXCEPT !.searched = TRUE, !.match = clean_arg2_re(tpl.text)]
    /\ UNCHANGED <<parser, cls>>

NextArgs == Search

SpecArgs == InitArgs /\ [][NextArgs]_vars

\* The loop of parse_text, one line at a time.
Line ==
    /\ Len(cls.read) < MaxLines
    /\ \E aword \in BodyLines :
         \E st \in {ClassifyLine([key |-> cls.key, lists |-> cls.lists], aword)} :
             cls' = [key |-> st.key, lists |-> st.lists,
                     read |-> Append(cls.read, aword)]
    /\ UNCHANGED <<parser, tpl>>

NextLines == Line

SpecLines == Init /\ [][NextLines]_vars

----------------------------------------------------------------------------
(* What the claims are stated with.                                        *)

\* The fields of the page being assembled.
PageFields(s) == <<s.pageid, s.title, s.redirect, s.model, s.format, s.text>>

\* This step handles an end tag (end pops the stack, whatever follows).
IsEnd == Len(self'.stack) < Len(self.stack)

\* This step handles the end tag t of the open element t.
EndsTag(t) == IsEnd /\ Top(self.stack) = t /\ last'.tag = t

\* This step calls neither word_cb nor writes to Output.txt nor prints.
NoOutput == word_cb' = word_cb /\ Output' = Output /\ printed' = printed

\* A dictionary of parse_text (and not a redirect record).
IsEntry(r) == "Synonyms" \in DOMAIN r

\* The text has no line that is one of the seven headers.
NoHeaderLine(text) ==
    \A i \in DOMAIN Wordss(text) : HeaderText(Wordss(text)[i]) \notin LabelSet

----------------------------------------------------------------------------
(* C1: every page that is parsed (not a redirect, a text model, a title    *)
(* that qualifies) has its entry handed to word_cb, once and in the order  *)
(* the pages end: the entries word_cb has received are the entries         *)
(* parse_text has produced.  The code writes them to Output.txt instead    *)
(* and never calls word_cb with one.                                       *)
C1_EntriesReachWordCb == SelectSeq(word_cb, IsEntry) = Output

(* C2: the page "Thesaurus:happy" with the body lines ===Synonyms===,      *)
(* {{l|en|glad}}, ===Antonyms===, {{l|en|sad}} yields word "happy",        *)
(* Synonyms <<"glad">>, Antonyms <<"sad">> and five empty lists.  The code *)
(* yields the first body line as the word and "en" in both lists.          *)
C2_HappyEntry ==
    (/\ last.branch = "parse"
     /\ self.title = Some("Thesaurus:happy")
     /\ self.text # None
     /\ Wordss(Val(self.text)) = <<"===Synonyms===", "{{l|en|glad}}",
                                   "===Antonyms===", "{{l|en|sad}}">>)
    => Output[Len(Output)] =
           Entry("happy", [EmptyLists EXCEPT !["Synonyms"] = <<"glad">>,
                                             !["Antonyms"] = <<"sad">>])

(* C3: when the tag popped from the stack is not the tag of the end tag,   *)
(* end fails with an AssertionError, changes no field of the page and      *)
(* produces no output.                                                     *)
C3_MismatchIsFatal ==
    [][(IsEnd /\ last'.tag # Top(self.stack))
        => /\ err' = "AssertionError"
           /\ PageFields(self') = PageFields(self)
           /\ NoOutput]_vars

C3_Witness ==
    /\ err = "AssertionError"
    /\ last.branch = "mismatch"
    /\ self.title # None

C5_NonTextDropped ==
    [][(EndsTag("page") /\ IsNonTextModel(self.model))
        => /\ last'.branch = "drop"
           /\ err' = "none"
           /\ NoOutput]_vars

C5_Witness ==
    /\ last.branch = "drop"
    /\ self.redirect = Some("Target")
    /\ capture_redirects

(* C6: a step produces at most one output record, a redirect record or an  *)
(* entry and never both, nothing produced earlier is changed, and the step *)
(* that produces one is the end of a page; so each page element produces   *)
(* at most one record.                                                     *)
C6_OneRecordPerPage ==
    [][/\ IsPrefix(word_cb, word_cb') /\ IsPrefix(Output, Output')
       /\ Len(word_cb') + Len(Output') <= Len(word_cb) + Len(Output) + 1
       /\ (word_cb' # word_cb \/ Output' # Output) => EndsTag("page")]_vars

C6_Witness == Len(word_cb) = 1 /\ Len(Output) = 1

(* C7: a page with no redirect target, a text model and a title without    *)
(* "Thesaurus:" is skipped with no output and no error, also when it has   *)
(* no text element.  The code asserts that the text is a string before it  *)
(* looks at the title.                                                     *)
C7_OtherTitleSkipped ==
    [][(/\ EndsTag("page")
        /\ ~IsNonTextModel(self.model)
        /\ self.redirect = None
        /\ self.title # None
        /\ NotThesaurus(Val(self.title)))
        => err' = "none" /\ NoOutput]_vars

(* C8: a qualifying page whose text has no header line, the empty text     *)
(* included, is parsed without an error into an entry with seven empty     *)
(* lists.  The code takes wordss[0] of the empty list.                     *)
C8_NoHeaderEmptyEntry ==
    [][(/\ EndsTag("page")
        /\ ~IsNonTextModel(self.model)
        /\ self.redirect = None
        /\ self.title # None
        /\ ~NotThesaurus(Val(self.title))
        /\ self.text # None
        /\ NoHeaderLine(Val(self.text)))
        => /\ err' = "none"
           /\ Len(Output') = Len(Output) + 1
           /\ \A l \in LabelSet : Output'[Len(Output')][l] = <<>>]_vars

\* The page that ends in this step is dispatched as the reference run
\* dispatches it: the same exception, the same calls of word_cb and the
\* same lines of Output.txt.
SameAsReference ==
    /\ err' = ref'.err
    /\ word_cb' = word_cb \o ref'.word_cb
    /\ Output' = Output \o ref'.Output

\* The end of an unknown element is at most a diagnostic: no exception, no
\* page field changed, no call of word_cb and no line of Output.txt.
OnlyDiagnostic ==
    \A t \in UnknownTags :
        EndsTag(t) =>
            /\ err' = "none"
            /\ PageFields(self') = PageFields(self)
            /\ word_cb' = word_cb /\ Output' = Output
            /\ last'.branch \in {"unsupported", "stack_ignore"}
            /\ printed' = IF last'.branch = "unsupported"
                          THEN Append(printed, <<"UNSUPPORTED", t>>)
                          ELSE printed

(* C9 as stated: the end of an unknown element is only a diagnostic, it    *)
(* raises nothing and changes no page field, and every page that ends      *)
(* after it is dispatched as it is without the unknown elements.  Fails    *)
(* for an unknown element inside a title or a redirect element.            *)
C9_UnknownAsIfAbsent ==
    [][OnlyDiagnostic /\ (EndsTag("page") => SameAsReference)]_vars

(* C9 as amended: the same, for the pages in which no unknown element was  *)
(* opened inside an id, title, text, redirect, namespace, model or format  *)
(* element.                                                                *)
C9_UnknownOutsideLeafAsIfAbsent ==
    [][OnlyDiagnostic
       /\ (EndsTag("page") /\ ~ref.nested => SameAsReference)]_vars

C9_Witness ==
    /\ last.op = "end" /\ last.tag = "page" /\ last.branch = "parse"
    /\ npages = 1
    /\ \E i \in DOMAIN printed : printed[i] = <<"UNSUPPORTED", "foo">>
    /\ ~ref.nested
    /\ Len(Output) = 1 /\ ref.Output = Output

\* This step ends a model or format element (t) whose value is none of the
\* recognized ones.
EndsUnrecognized(t, recognized) ==
    /\ EndsTag(t)
    /\ ~InStack("contributor", self.stack)
    /\ Strip(Join(self.data)) \notin recognized

(* C10 as stated: a model or format element with a value outside the       *)
(* recognized ones prints a diagnostic, raises nothing and leaves the      *)
(* field as it was.                                                        *)
C10_UnrecognizedLeftUnset ==
    [][/\ EndsUnrecognized("model", RecognizedModels)
            => /\ err' = "none"
               /\ printed' = Append(printed, <<"UNRECOGNIZED MODEL",
                                               Strip(Join(self.data))>>)
               /\ self'.model = self.model
       /\ EndsUnrecognized("format", RecognizedFormats)
            => /\ err' = "none"
               /\ printed' = Append(printed, <<"UNRECOGNIZED FORMAT",
                                               Strip(Join(self.data))>>)
               /\ self'.format = self.format]_vars

(* C10 as amended: such an element prints a diagnostic, raises nothing,    *)
(* and the field is set to the unrecognized value; no other field changes. *)
C10_UnrecognizedIsStored ==
    [][/\ EndsUnrecognized("model", RecognizedModels)
            => /\ err' = "none"
               /\ printed' = Append(printed, <<"UNRECOGNIZED MODEL",
                                               Strip(Join(self.data))>>)
               /\ self' = [self EXCEPT !.stack = SubSeq(@, 1, Len(@) - 1),
                                       !.data = <<>>,
                                       !.model = Some(Strip(Join(self.data)))]
       /\ EndsUnrecognized("format", RecognizedFormats)
            => /\ err' = "none"
               /\ printed' = Append(printed, <<"UNRECOGNIZED FORMAT",
                                               Strip(Join(self.data))>>)
               /\ self' = [self EXCEPT !.stack = SubSeq(@, 1, Len(@) - 1),
                                       !.data = <<>>,
                                       !.format = Some(Strip(Join(self.data)))]
      ]_vars

C10_Witness ==
    /\ err = "none"
    /\ self.model = Some("bogus")
    /\ self.format = Some("bogus")
    /\ printed = <<<<"UNRECOGNIZED MODEL", "bogus">>,
                   <<"UNRECOGNIZED FORMAT", "bogus">>>>

----------------------------------------------------------------------------
\* This step handles the start tag of a page.
StartsPage == last'.op = "start" /\ last'.tag = "page"

\* The open element is inside a revision or a contributor element.
InRevision ==
    InStack("revision", self.stack) \/ InStack("contributor", self.stack)

(* C11: pageid is set only by an id element outside revision: the end of   *)
(* such an element sets it to the stripped text of the element, the end of *)
(* an id element inside revision or contributor leaves it as it is, and    *)
(* no other step than the start of a page changes it.                      *)
C11_PageIdOutsideRevision ==
    [][/\ (EndsTag("id") /\ ~InRevision)
            => self'.pageid = Some(Strip(Join(self.data)))
       /\ (EndsTag("id") /\ InRevision) => self'.pageid = self.pageid
       /\ self'.pageid # self.pageid => EndsTag("id") \/ StartsPage]_vars

C11_Witness ==
    /\ last.op = "end" /\ last.tag = "id" /\ last.branch = "revid"
    /\ self.stack = <<"page", "revision">>
    /\ self.pageid = Some("1")
    /\ nelems = 2

(* C12: the start of a page clears pageid, title, redirect, model, format  *)
(* and text, and the page is dispatched at its end as a parser dispatches  *)
(* it that has seen the events of this page only: nothing of an earlier    *)
(* page is used.                                                           *)
C12_PageStartsFresh ==
    [][/\ StartsPage
            => PageFields(self') = <<None, None, None, None, None, None>>
       /\ EndsTag("page") => SameAsReference]_vars

C12_Witness ==
    /\ last.op = "end" /\ last.tag = "page" /\ last.branch = "parse"
    /\ npages = 2
    /\ Len(word_cb) = 1 /\ word_cb[1].redirect = "Target"
    /\ ref.word_cb = <<>>
    /\ Len(Output) = 1 /\ ref.Output = Output

(* C13: tag names and attribute names are compared without their prefix   *)
(* and without regard to case: the tag {ns}PAGE is handled as page, and    *)
(* the attribute of redirect that is named title in any case, with or      *)
(* without a prefix, is read as the redirect target.  The code strips the  *)
(* prefix of an attribute name but keeps its case: Title is not read.      *)
C13_NamesCaseInsensitive ==
    [][/\ TagName("{ns}PAGE") = "page"
       /\ (EndsTag("redirect") /\ last'.branch = "redirect_tag")
            => \A k \in DOMAIN self.attrs :
                   Lower(k) = "title" => self'.redirect = Some(self.attrs[k])]_vars

\* This step stores the text of a text element.
StoresText == EndsTag("text") /\ last'.branch = "text"

\* This step handles a start tag or an end tag of a well-formed document.
TagEvent ==
    last'.op \in {"start", "end"} /\ last'.branch \notin {"mismatch", "pop"}

\* The longest text of one text element.
LongestText ==
    CHOOSE n \in {Len(Join(c)) : c \in Contents("text")} :
        \A c \in Contents("text") : Len(Join(c)) <= n

(* C14: the parser keeps the text of at most one page and the character    *)
(* data since the last tag: text is replaced, never extended, by the end   *)
(* of a text element, no other step but the start of a page changes it,    *)
(* every tag empties data and a data event adds its one chunk; the text    *)
(* kept is never longer than the text of one element, however many pages   *)
(* have ended.                                                             *)
C14_OnePageOfText ==
    [][/\ StoresText => self'.text = Some(Strip(Join(self.data)))
       /\ ~StoresText => self'.text = self.text \/ (StartsPage /\ self'.text = None)
       /\ TagEvent => self'.data = <<>>
       /\ (last'.op = "data" /\ err' = "none")
            => \E chunk \in AllChunks : self'.data = Append(self.data, chunk)
       /\ self'.text # None => Len(Val(self'.text)) <= LongestText]_vars

C14_Witness ==
    /\ last.op = "end" /\ last.tag = "text" /\ last.branch = "text"
    /\ npages = 2
    /\ Len(Output) = 1 /\ Output[1].word = "===Synonyms==="
    /\ self.text = Some("{{ws beginlist}}\n* plain")
    /\ self.data = <<>>

\* The text is one template that is closed at its end; its arguments are
\* the texts between the "|" outside nested {{...}} and [[...]].
WholeTemplate(text) ==
    ScanTemplate(text, 3, 0, 0, <<>>).close = Len(text) - 1

\* The n-th argument of such a template.
BalancedArg(text, n) ==
    LET t == ScanTemplate(text, 3, 0, 0, <<>>) IN
    SubSeq(text, t.seps[n] + 1,
           (IF Len(t.seps) > n THEN t.seps[n + 1] ELSE t.close) - 1)

(* C15: the grammar of the arguments skips nested balanced spans when it   *)
(* looks for the "|" and the closing "}}": of a template with two or more  *)
(* positional arguments clean_arg2_re matches the whole and its second     *)
(* argument is the second argument with its nested spans, as for           *)
(* {{m|en|{{l|en|dog}}}}.  The code cuts [[a|b]] at its "|" and            *)
(* {{a|{{b}}}} at its first "}}".                                          *)
C15_NestedSpansSkipped ==
    (/\ tpl.searched
     /\ WholeTemplate(tpl.text)
     /\ Len(ScanTemplate(tpl.text, 3, 0, 0, <<>>).seps) >= 2
     /\ Find(tpl.text, "=") = 0)
    => /\ tpl.match # None
       /\ Val(tpl.match).text = tpl.text
       /\ Val(tpl.match).arg2 = BalancedArg(tpl.text, 2)

----------------------------------------------------------------------------
\* The line read in this step of the loop.
ReadsLine == Len(cls'.read) = Len(cls.read) + 1
Aword == cls'.read[Len(cls'.read)]

\* The line is one of the seven headers.
IsHeader(aword) == HeaderText(aword) \in LabelSet

(* C16: a line that is one of the seven labels once its non-word           *)
(* characters are spaces and it is stripped makes the key that of the      *)
(* label and appends to no list, whatever the key was.                     *)
C16_HeaderSetsKey ==
    [][(ReadsLine /\ IsHeader(Aword))
        => /\ cls'.key = KeyOf(HeaderText(Aword))
           /\ cls'.lists = cls.lists]_vars

C16_Witness ==
    /\ cls.read = <<"===Synonyms===", "{{ws|glad}}", "====Antonyms====">>
    /\ cls.key = "b"
    /\ cls.lists = [EmptyLists EXCEPT !["Synonyms"] = <<"glad">>]

\* The first argument of the first template of the line that has no "=",
\* None if there is no such argument.
RECURSIVE FirstWithoutEquals(_)
FirstWithoutEquals(args) ==
    IF args = <<>> THEN None
    ELSE IF Find(Head(args), "=") = 0 THEN Some(Head(args))
    ELSE FirstWithoutEquals(Tail(args))

FirstPositional(aword) ==
    IF TemplateStarts(aword) = {} THEN None
    ELSE LET first == CHOOSE i \in TemplateStarts(aword) :
                          \A j \in TemplateStarts(aword) : i <= j
             t == ScanTemplate(aword, first + 2, 0, 0, <<>>)
             ends == Tail(t.seps) \o <<t.close>>
         IN FirstWithoutEquals([n \in DOMAIN t.seps |->
                SubSeq(aword, t.seps[n] + 1, ends[n] - 1)])

(* C17: while the key is one of the seven, a line that is not a header and *)
(* whose first template has a positional argument appends one value to the *)
(* list of the key and nothing to the others, and the value is the text of *)
(* the first positional argument, named arguments not counted.  The code   *)
(* appends the value of the first argument, named or not.                  *)
C17_FirstPositionalAppended ==
    [][(/\ ReadsLine
        /\ cls.key \in KeySet
        /\ ~IsHeader(Aword)
        /\ FirstPositional(Aword) # None)
        => cls'.lists = [cls.lists EXCEPT ![LabelOf(cls.key)] =
                            Append(@, Val(FirstPositional(Aword)))]]_vars

C19_ListsOnlyGrow ==
    [][\A l \in LabelSet : IsPrefix(cls.lists[l], cls'.lists[l])]_vars

C19_Witness ==
    /\ cls.read = <<"===Synonyms===", "{{ws|glad}}", "===Synonyms===",
                    "* {{l|en|sad}} {{qualifier|rare}}">>
    /\ cls.lists = [EmptyLists EXCEPT !["Synonyms"] = <<"glad", "en">>]

\* The line is neither a header nor one of the three other headers.
IsPlain(aword) == ~IsHeader(aword) /\ aword \notin Sentinels

(* C20 as stated: a line that has no template, or whose first template has *)
(* no argument, changes neither the seven lists nor the key, raises        *)
(* nothing, and the lines after it are still read.  Fails for the headers, *)
(* which have no template and change the key.                              *)
C20_NoValueLineSkipped ==
    [][(ReadsLine /\ FirstArgValue(Aword) = None)
        => cls'.key = cls.key /\ cls'.lists = cls.lists]_vars

(* C20 as amended: the same for a line that is not a header.               *)
C20_PlainNoValueLineSkipped ==
    [][(ReadsLine /\ FirstArgValue(Aword) = None /\ IsPlain(Aword))
        => cls'.key = cls.key /\ cls'.lists = cls.lists]_vars

C20_Witness ==
    /\ cls.read = <<"===Synonyms===", "* plain", "{{ws}}", "{{ws|glad}}">>
    /\ cls.key = "a"
    /\ cls.lists = [EmptyLists EXCEPT !["Synonyms"] = <<"glad">>]

----------------------------------------------------------------------------
\* The stack without the open element.
Popped(stack) == SubSeq(stack, 1, Len(stack) - 1)

\* This step handles the end tag of the open element, and the element is
\* one of ignore_tags or lies inside a contributor element.
EndsSkipped ==
    /\ IsEnd
    /\ last'.tag = Top(self.stack)
    /\ \/ Top(self.stack) \in ignore_tags
       \/ InStack("contributor", Popped(self.stack))

(* C21: the end tag of an element of the ignore set, and any end tag      *)
(* handled while a contributor element is open, pops the stack and        *)
(* empties the data buffer and does nothing else: every other field of    *)
(* the parser stays as it is, nothing is raised, word_cb is not called,   *)
(* nothing is written to Output.txt and no diagnostic is printed.         *)
C21_SkippedEndOnlyPops ==
    [][EndsSkipped
         => /\ self' = [self EXCEPT !.stack = Popped(@), !.data = <<>>]
            /\ err' = "none"
            /\ NoOutput]_vars

C21_Witness ==
    /\ last.op = "end" /\ last.tag = "id" /\ last.branch = "stack_ignore"
    /\ self.stack = <<"page", "contributor">>
    /\ self.pageid = Some("1")
    /\ self.data = <<>>
    /\ printed = <<>>

----------------------------------------------------------------------------
\* The attributes of the start tag of the open redirect or namespace
\* element: the ones the reference run has stored, which is not given the
\* unknown elements, the only ones the documents nest in these two.
OwnAttrs == ref.self.attrs

(* C22: at the end tag of a redirect or a namespace element the            *)
(* attributes read are those of the start tag of that element, also when   *)
(* other elements start and end inside it: redirect becomes the title      *)
(* attribute of the redirect element.  The code reads the attributes of    *)
(* the last start tag, whatever element it opened.                         *)
C22_AttrsOfSameElement ==
    [][/\ (EndsTag("redirect") \/ EndsTag("namespace"))
            => self.attrs = OwnAttrs
       /\ EndsTag("redirect") => self'.redirect = Get(OwnAttrs, "title")]_vars

----------------------------------------------------------------------------
\* The fields of a page that are the text of an element.
TextFields == {"title", "text", "model", "format"}

\* The end of the page dispatches on the fields as they are in this step:
\* the page is dropped for a model that is not wikitext, the redirect
\* record carries title, and parse_text is given title and text.
DispatchesOnFields ==
    IF IsNonTextModel(self.model)
    THEN NoOutput /\ err' = "none" /\ last'.branch = "drop"
    ELSE IF Truthy(self.redirect)
        THEN /\ Output' = Output /\ err' = "none"
             /\ word_cb' = IF capture_redirects
                           THEN Append(word_cb,
                                       [redirect |-> Val(self.redirect),
                                        word |-> self.title])
                           ELSE word_cb
    ELSE \E r \in {parse_text(self.title, self.text)} :
             /\ word_cb' = word_cb
             /\ err' = r.exc
             /\ Output' = IF r.data = None THEN Output
                          ELSE Append(Output, Val(r.data))

(* C23: of several title, text, model or format elements of a page the    *)
(* last one counts: the end of such an element (outside contributor)      *)
(* replaces the field by the stripped text of this element, whatever the  *)
(* field held, no other step but the start of a page changes the field,   *)
(* and the end of the page dispatches on the fields as they then are.     *)
C23_LastWriteWins ==
    [][/\ \A f \in TextFields :
            /\ (EndsTag(f) /\ ~InStack("contributor", Popped(self.stack)))
                  => self'[f] = Some(Strip(Join(self.data)))
            /\ self'[f] # self[f] => EndsTag(f) \/ StartsPage
       /\ EndsTag("page") => DispatchesOnFields]_vars

C23_Witness ==
    /\ last.op = "end" /\ last.tag = "page" /\ last.branch = "drop"
    /\ npages = 1
    /\ printed = <<<<"UNRECOGNIZED MODEL", "bogus">>>>
    /\ self.model = Some("css")
    /\ Output = <<>> /\ word_cb = <<>>

----------------------------------------------------------------------------
(* C24: the key changes only on a line that is one of the seven headers   *)
(* or one of the three sentinels; every other line, a list marker, a      *)
(* template line or another section header such as ===Notes===, leaves    *)
(* the key as it is, so that the lines after an unrecognized header are   *)
(* collected into the list of the key as before.                          *)
C24_KeyChangesOnlyOnHeader ==
    [][/\ (ReadsLine /\ IsPlain(Aword)) => cls'.key = cls.key
       /\ cls'.key # cls.key
            => ReadsLine /\ (IsHeader(Aword) \/ Aword \in Sentinels)]_vars

C24_Witness ==
    /\ cls.read = <<"===Synonyms===", "{{ws|glad}}", "===Notes===",
                    "{{ws|glad}}">>
    /\ cls.key = "a"
    /\ cls.lists = [EmptyLists EXCEPT !["Synonyms"] = <<"glad", "glad">>]

====
